---- MODULE Spec2Model ----
(***************************************************************************)
(* Model of the fingerprint-doorbell companion application:                *)
(*   - the chunked template import of src/src/services/api.ts              *)
(*   - the validating discovery service of src/src/services/discovery.ts   *)
(*     on top of the Electron backend (src/electron/main.js, preload.js)   *)
(*   - the enroll and pair handlers of the fingerprint list screen         *)
(*     (src/src/screens/SensorFormScreen.tsx)                              *)
(*   - the sensor registry of src/src/services/storage.ts under the add,   *)
(*     edit and delete handlers of the form and list screens               *)
(* Strings that the code slices or formats are sequences of one-character  *)
(* strings; every HTTP exchange is recorded in the history variable net.   *)
(***************************************************************************)
EXTENDS Integers, Sequences, FiniteSets, TLC

VARIABLES
    impPc,        \* per importTemplate invocation: position in the function
    impArgs,      \* per invocation: the arguments (sensor, template)
    impI,         \* per invocation: loop variable i
    impTotal,     \* per invocation: totalChunks
    impResult,    \* per invocation: value the returned promise resolved with
    impError,     \* per invocation: error the returned promise rejected with
    net,          \* history of HTTP exchanges, in the order fetch() was called
    discoveryInstance,   \* discovery.ts: the module-level singleton ("null" until created)
    validatedDevices,    \* createValidatingDiscovery: Map name -> DiscoveredDevice
    deviceFoundCallback, \* createValidatingDiscovery: subscriber callback or NoCallback
    deviceLostCallback,  \* createValidatingDiscovery: subscriber callback or NoCallback
    ipcFoundListeners,   \* preload.js: listeners on 'mdns:device-found'
    ipcLostListeners,    \* preload.js: listeners on 'mdns:device-lost'
    rawDevices,          \* main.js: discoveredDevices, Map name -> device
    browserRunning,      \* main.js: the bonjour browser is up
    mainInbox,           \* ipcRenderer.invoke messages main.js has not handled yet
    probes,              \* per device record: isFingerprintDoorbell calls waiting for their fetch
    rawEvents,           \* number of raw found/lost events the backend has emitted
    lastRaw,             \* per name: the latest raw event handed to the validator
    lastAnnounce,        \* what main.js did in the latest step: a raw event sent, a start or
                         \* a stop handled (None if the step was not one of main.js)
    lastProbe,           \* the probe the latest step completed (None if it completed none)
    lastLost,            \* the raw lost event the latest step handed to the validator (or None)
    lostNotified,        \* per name: a lost notification went out since the latest raw found
    emitted,             \* the subscriber callback invocations made by the latest step
    escaped,             \* errors that left the validator's handlers
    mounted,             \* the sensor list screen is mounted
    mounts,              \* number of times the screen was mounted
    fingerprints,        \* FingerprintListScreen: the fingerprints state (list of Fingerprint)
    sensorPaired,        \* FingerprintListScreen: "null", TRUE or FALSE
    fetchPc,             \* fetchFingerprints: "idle", or the request it waits for
    enrolling,           \* FingerprintListScreen: the enrolling state
    pairsInFlight,       \* pairSensor requests that have not settled
    fpLast,              \* what the latest step's handler did (None if it was no handler)
    enrollModalVisible,  \* FingerprintListScreen: the enroll dialog is shown
    enrollStatus,        \* FingerprintListScreen: the enrollStatus text
    enrollCount,         \* number of enrollments started (handleEnroll past its name test)
    sessions,            \* per enrollment: its request, its interval timer and its polls
    copyPc,              \* handleCopyTo: idle, or the request it awaits, or how it ended
    copyTarget,          \* the id of the fingerprint chosen for the copy (0: none)
    copyFetched,         \* the list the target device answered with
    copyTotal,           \* chunks the exported template makes
    copySent,            \* chunk requests sent
    copyNewId,           \* importData.id (0 before it is chosen)
    copyLog,             \* the requests handleCopyTo has issued, in order
    cancelPending,       \* the enrollment whose cancelEnrollment request has not settled, or 0
    storage,             \* AsyncStorage: the item under 'sensors' (no tokens: no item)
    now,                 \* the value Date.now() returns
    regOps,              \* the storage.ts operations in flight, in the order they were called
    regDone,             \* the operation the latest step completed (None if it completed none)
    regCount,            \* number of storage.ts operations called so far
    listSensors          \* SensorListScreen: the sensors state

impVars == <<impPc, impArgs, impI, impTotal, impResult, impError, net>>

discVars == <<discoveryInstance, validatedDevices, deviceFoundCallback, deviceLostCallback,
              ipcFoundListeners, ipcLostListeners, rawDevices, browserRunning, mainInbox,
              probes, rawEvents, lastRaw, lastAnnounce, lastProbe, lastLost, lostNotified,
              emitted, escaped, mounted, mounts>>

enrVars == <<enrollModalVisible, enrollStatus, enrollCount, sessions, cancelPending>>

copyVars == <<copyPc, copyTarget, copyFetched, copyTotal, copySent, copyNewId, copyLog>>

fpVars == <<fingerprints, sensorPaired, fetchPc, enrolling, pairsInFlight, fpLast, enrVars,
            copyVars>>

regVars == <<storage, now, regOps, regDone, regCount, listSensors>>

vars == <<impVars, discVars, fpVars, regVars>>

\* the absent value (null, undefined, a promise not settled)
None == [kind |-> "none"]

-----------------------------------------------------------------------------
(* Bounds and input domains                                                *)

\* longest template, counted in whole chunks
MaxChunks == 3

\* importTemplate invocations (each is one call of the async function)
Inv == {"t1", "t2"}

Min(a, b) == IF a < b THEN a ELSE b
Max(a, b) == IF a > b THEN a ELSE b

\* the base64 alphabet the device encodes templates with, and its padding
Base64Chars ==
    <<"A","B","C","D","E","F","G","H","I","J","K","L","M","N","O","P",
      "Q","R","S","T","U","V","W","X","Y","Z","a","b","c","d","e","f",
      "g","h","i","j","k","l","m","n","o","p","q","r","s","t","u","v",
      "w","x","y","z","0","1","2","3","4","5","6","7","8","9","+","/">>

\* a template text of length len: position k holds a character that depends
\* on k and on the offset, so that neighbouring positions and neighbouring
\* chunks differ
TemplateText(len, offset) ==
    [k \in 1..len |-> Base64Chars[((k + offset) % Len(Base64Chars)) + 1]]

-----------------------------------------------------------------------------
(* src/src/services/api.ts                                                 *)

CHUNK_SIZE == 500

\* lengths around every chunk boundary up to MaxChunks chunks
TemplateLengths ==
    {L \in {k * CHUNK_SIZE + d : k \in 0..MaxChunks, d \in {-1, 0, 1}} :
        L >= 0 /\ L <= MaxChunks * CHUNK_SIZE}

\* FingerprintTemplate values handed to importTemplate
Templates ==
    {[id |-> 7, name |-> "Anna", template |-> TemplateText(L, 0)] : L \in TemplateLengths}
    \cup {[id |-> 12, name |-> "", template |-> TemplateText(L, 17)] : L \in TemplateLengths}

\* SensorConfig values (types.ts): the two registered devices
Sensors ==
    {[id |-> "s1", name |-> "Front", ipAddress |-> "192.168.1.10", apiKey |-> ""],
     [id |-> "s2", name |-> "Back", ipAddress |-> "192.168.1.11", apiKey |-> "k3y"]}

\* HTTP statuses a device answers with
Statuses == {200, 299, 300, 404}

\* response bodies: the import result of the device, and a body that is not JSON
Bodies == {"{\"status\":\"ok\"}", "{\"status\":\"stored\"}", "<html>"}

\* Number.prototype.toString for a non-negative integer: its decimal digits
Digits == <<"0","1","2","3","4","5","6","7","8","9">>

RECURSIVE NumberToString(_)
NumberToString(n) ==
    IF n < 10 THEN <<Digits[n + 1]>>
    ELSE NumberToString(n \div 10) \o <<Digits[(n % 10) + 1]>>

\* substring with the end index taken as inclusive-minus-one (drops one character)
SubstringShort(s, start, end) ==
    LET a == Min(Max(start, 0), Len(s))
        b == Min(Max(end - 1, 0), Len(s))
    IN  SubSeq(s, Min(a, b) + 1, Max(a, b))

\* String.prototype.substring(start, end): both clamped to [0, length], swapped
\* when start > end, characters start .. end-1 (0-based)
Substring(s, start, end) ==
    LET a == Min(Max(start, 0), Len(s))
        b == Min(Max(end, 0), Len(s))
    IN  SubSeq(s, Min(a, b) + 1, Max(a, b))

\* Math.floor(a / b) + 1 in place of Math.ceil(a / b)
MathFloorPlusOne(a, b) == (a \div b) + 1

\* Math.ceil(a / b) for integers a >= 0, b > 0
MathCeilDiv(a, b) == IF a % b = 0 THEN a \div b ELSE (a \div b) + 1

\* a check that lets every status below 400 pass
ResponseBelow400(status) == status >= 200 /\ status <= 399

\* Response.ok
ResponseOk(status) == status >= 200 /\ status <= 299

\* buildHeaders
buildHeaders(sensor) ==
    IF sensor.apiKey # "" THEN [Authorization |-> <<"Bearer ", sensor.apiKey>>]
    ELSE <<>>

\* the URLSearchParams with name set on every chunk
ChunkParamsAlwaysNamed(template, i, totalChunks) ==
    [id |-> NumberToString(template.id),
     chunk |-> NumberToString(i),
     total |-> NumberToString(totalChunks),
     data |-> Substring(template.template, i * CHUNK_SIZE, (i + 1) * CHUNK_SIZE),
     name |-> template.name]

\* the URLSearchParams of chunk i, with name set on the first chunk only
ChunkParams(template, i, totalChunks) ==
    LET base == [id |-> NumberToString(template.id),
                 chunk |-> NumberToString(i),
                 total |-> NumberToString(totalChunks),
                 data |-> Substring(template.template, i * CHUNK_SIZE, (i + 1) * CHUNK_SIZE)]
    IN  IF i = 0
        THEN [k \in DOMAIN base \cup {"name"} |-> IF k = "name" THEN template.name ELSE base[k]]
        ELSE base

\* isLast taken one chunk early
IsLastEarly(i, totalChunks) == i + 1 >= totalChunks - 1

\* const isLast = (i === totalChunks - 1)
IsLast(i, totalChunks) == i = totalChunks - 1

\* JSON.parse as done by response.json() on the bodies above
JsonValid(body) == body \in {"{\"status\":\"ok\"}", "{\"status\":\"stored\"}"}
JsonParse(body) ==
    CASE body = "{\"status\":\"ok\"}" -> [status |-> "ok"]
      [] body = "{\"status\":\"stored\"}" -> [status |-> "stored"]
      [] OTHER -> None

\* fetch(url, {method: 'POST', headers}) of chunk i: a new exchange in flight
ChunkRequest(v, sensor, template, i, totalChunks) ==
    [inv |-> v, target |-> sensor.ipAddress, method |-> "POST", path |-> "/fingerprint/template/chunk",
     params |-> ChunkParams(template, i, totalChunks), headers |-> buildHeaders(sensor),
     state |-> "inflight", status |-> 0, body |-> ""]

\* the pending exchange looked up without regard to the invocation that made it
PendingOfAny(v) == CHOOSE k \in 1..Len(net) : net[k].state = "inflight"

\* index in net of the exchange invocation v is waiting for
PendingOf(v) == CHOOSE k \in 1..Len(net) : net[k].inv = v /\ net[k].state = "inflight"

\* importTemplate with the await of line 150 missing: every chunk is fetched at once
ImportCallNoAwait(v, sensor, template) ==
    /\ impPc[v] = "idle"
    /\ impArgs' = [impArgs EXCEPT ![v] = [sensor |-> sensor, template |-> template]]
    /\ LET totalChunks == MathCeilDiv(Len(template.template), CHUNK_SIZE)
       IN  /\ impTotal' = [impTotal EXCEPT ![v] = totalChunks]
           /\ net' = net \o [i \in 1..totalChunks |->
                                ChunkRequest(v, sensor, template, i - 1, totalChunks)]
           /\ impPc' = [impPc EXCEPT ![v] = IF 0 < totalChunks THEN "fetch" ELSE "thrown"]
           /\ impError' = IF 0 < totalChunks THEN impError
                          ELSE [impError EXCEPT ![v] = [kind |-> "NoChunks", message |-> "No chunks to send"]]
    /\ UNCHANGED <<impI, impResult>>
    /\ UNCHANGED <<discVars, fpVars, regVars>>

\* importTemplate(sensor, template) up to its first suspension
ImportCall(v, sensor, template) ==
    /\ impPc[v] = "idle"
    /\ impArgs' = [impArgs EXCEPT ![v] = [sensor |-> sensor, template |-> template]]
    /\ LET totalChunks == MathCeilDiv(Len(template.template), CHUNK_SIZE)
       IN  /\ impTotal' = [impTotal EXCEPT ![v] = totalChunks]
           /\ IF 0 < totalChunks
              THEN /\ net' = Append(net, ChunkRequest(v, sensor, template, 0, totalChunks))
                   /\ impPc' = [impPc EXCEPT ![v] = "fetch"]
                   /\ UNCHANGED impError
              ELSE /\ impPc' = [impPc EXCEPT ![v] = "thrown"]
                   /\ impError' = [impError EXCEPT ![v] = [kind |-> "NoChunks", message |-> "No chunks to send"]]
                   /\ UNCHANGED net
    /\ UNCHANGED <<impI, impResult>>
    /\ UNCHANGED <<discVars, fpVars, regVars>>

\* await fetch(...) rejects: transport failure, the rejection leaves importTemplate
FetchReject(v) ==
    /\ impPc[v] = "fetch"
    /\ LET k == PendingOf(v)
       IN  net' = [net EXCEPT ![k].state = "failed"]
    /\ impPc' = [impPc EXCEPT ![v] = "thrown"]
    /\ impError' = [impError EXCEPT ![v] = [kind |-> "fetch", chunk |-> impI[v]]]
    /\ UNCHANGED <<impArgs, impI, impTotal, impResult>>
    /\ UNCHANGED <<discVars, fpVars, regVars>>

\* await fetch(...) resolves with a response; the loop body runs on to the next
\* suspension: response.text() of a non-2xx response, response.json() of the
\* last chunk, or the fetch of chunk i+1; a loop that ends without returning
\* falls through to the throw of line 167
FetchRespond(v, status, body) ==
    /\ impPc[v] = "fetch"
    /\ LET k == PendingOf(v)
           i == impI[v]
           answered == [net EXCEPT ![k].state = "responded", ![k].status = status, ![k].body = body]
       IN  IF ~ResponseOk(status)
           THEN /\ net' = answered
                /\ impPc' = [impPc EXCEPT ![v] = "text"]
                /\ UNCHANGED <<impI, impError>>
           ELSE IF IsLast(i, impTotal[v])
           THEN /\ net' = answered
                /\ impPc' = [impPc EXCEPT ![v] = "json"]
                /\ UNCHANGED <<impI, impError>>
           ELSE IF i + 1 < impTotal[v]
           THEN /\ net' = Append(answered,
                        ChunkRequest(v, impArgs[v].sensor, impArgs[v].template, i + 1, impTotal[v]))
                /\ impI' = [impI EXCEPT ![v] = i + 1]
                /\ UNCHANGED <<impPc, impError>>
           ELSE /\ net' = answered
                /\ impI' = [impI EXCEPT ![v] = i + 1]
                /\ impPc' = [impPc EXCEPT ![v] = "thrown"]
                /\ impError' = [impError EXCEPT ![v] =
                                  [kind |-> "NoChunks", message |-> "No chunks to send"]]
    /\ UNCHANGED <<impArgs, impTotal, impResult>>
    /\ UNCHANGED <<discVars, fpVars, regVars>>

\* index in net of the exchange invocation v made last
LastOf(v) ==
    CHOOSE k \in 1..Len(net) : net[k].inv = v /\ \A j \in 1..Len(net) : net[j].inv = v => j <= k

\* await response.text() on a non-2xx response, then the throw of line 158
TextResolve(v) ==
    /\ impPc[v] = "text"
    /\ impError' = [impError EXCEPT ![v] =
                      [kind |-> "status", chunkNo |-> impI[v] + 1, status |-> net[LastOf(v)].status]]
    /\ impPc' = [impPc EXCEPT ![v] = "thrown"]
    /\ UNCHANGED <<impArgs, impI, impTotal, impResult, net>>
    /\ UNCHANGED <<discVars, fpVars, regVars>>

\* await response.text() rejects (the body cannot be read)
TextReject(v) ==
    /\ impPc[v] = "text"
    /\ impError' = [impError EXCEPT ![v] = [kind |-> "body", chunk |-> impI[v]]]
    /\ impPc' = [impPc EXCEPT ![v] = "thrown"]
    /\ UNCHANGED <<impArgs, impI, impTotal, impResult, net>>
    /\ UNCHANGED <<discVars, fpVars, regVars>>

\* return response.json() of the last chunk resolves
JsonResolve(v) ==
    /\ impPc[v] = "json"
    /\ JsonValid(net[LastOf(v)].body)
    /\ impResult' = [impResult EXCEPT ![v] = JsonParse(net[LastOf(v)].body)]
    /\ impPc' = [impPc EXCEPT ![v] = "returned"]
    /\ UNCHANGED <<impArgs, impI, impTotal, impError, net>>
    /\ UNCHANGED <<discVars, fpVars, regVars>>

\* return response.json() rejects: the body is not JSON, or cannot be read
JsonReject(v) ==
    /\ impPc[v] = "json"
    /\ impError' = [impError EXCEPT ![v] = [kind |-> "json", chunk |-> impI[v]]]
    /\ impPc' = [impPc EXCEPT ![v] = "thrown"]
    /\ UNCHANGED <<impArgs, impI, impTotal, impResult, net>>
    /\ UNCHANGED <<discVars, fpVars, regVars>>

InitImport ==
    /\ impPc = [v \in Inv |-> "idle"]
    /\ impArgs = [v \in Inv |-> None]
    /\ impI = [v \in Inv |-> 0]
    /\ impTotal = [v \in Inv |-> 0]
    /\ impResult = [v \in Inv |-> None]
    /\ impError = [v \in Inv |-> None]
    /\ net = <<>>

-----------------------------------------------------------------------------
(* src/src/services/discovery.ts, src/electron/preload.js, main.js         *)

\* raw found/lost events the backend emits in one run
MaxRawEvents == 4

\* times the sensor list screen is mounted in one run
MaxMounts == 2

\* DiscoveredDevice records the backend announces: two announcements of the
\* same name with different addresses, and one other device
Devices ==
    {[name |-> "doorbell", host |-> "doorbell.local", ip |-> "10.0.0.5", port |-> 6053, txt |-> "v1"],
     [name |-> "doorbell", host |-> "doorbell.local", ip |-> "10.0.0.6", port |-> 6053, txt |-> "v2"],
     [name |-> "lamp", host |-> "lamp.local", ip |-> "10.0.0.7", port |-> 6053, txt |-> "v1"]}

DeviceNames == {d.name : d \in Devices}

\* statuses a probed address answers with
ProbeStatuses == {200, 401, 404}

\* deviceFoundCallback = null
NoCallback == 0

\* Map operations
EmptyMap == [n \in {} |-> None]
MapHas(m, k) == k \in DOMAIN m
MapSet(m, k, val) == [n \in DOMAIN m \cup {k} |-> IF n = k THEN val ELSE m[n]]
MapDelete(m, k) == [n \in DOMAIN m \ {k} |-> m[n]]
MapGet(m, k) == IF k \in DOMAIN m THEN m[k] ELSE None

\* isFingerprintDoorbell with "status === 200" for the verdict
isFingerprintDoorbellOnly200(outcome) ==
    IF outcome.kind = "response"
    THEN [value |-> outcome.status = 200, threw |-> FALSE]
    ELSE [value |-> FALSE, threw |-> FALSE]

\* isFingerprintDoorbell(ip), given how its fetch ended: a response gives
\* status !== 404; an abort by the 3000 ms timer or a transport failure rejects
\* the fetch inside the try block and the catch returns false
isFingerprintDoorbell(outcome) ==
    IF outcome.kind = "response"
    THEN [value |-> outcome.status # 404, threw |-> FALSE]
    ELSE [value |-> FALSE, threw |-> FALSE]

\* lines 59-60 in the opposite order: the subscriber is called before the insert
OnValidatedNotifyFirst(m, cb, device) ==
    [map |-> MapSet(m, device.name, device),
     notes |-> IF cb # NoCallback
               THEN <<[kind |-> "found", arg |-> device, cb |-> cb,
                       seen |-> MapGet(m, device.name)]>>
               ELSE <<>>]

\* line 59 as an insert that keeps an entry the name already has
OnValidatedKeepsFirst(m, cb, device) ==
    LET inserted == IF MapHas(m, device.name) THEN m ELSE MapSet(m, device.name, device)
    IN  [map |-> inserted,
         notes |-> IF cb # NoCallback
                   THEN <<[kind |-> "found", arg |-> device, cb |-> cb,
                           seen |-> MapGet(inserted, device.name)]>>
                   ELSE <<>>]

\* lines 59-60: validatedDevices.set(device.name, device), then
\* deviceFoundCallback?.(device); seen is the entry the callback finds under
\* device.name in the map when it is called
OnValidated(m, cb, device) ==
    LET inserted == MapSet(m, device.name, device)
    IN  [map |-> inserted,
         notes |-> IF cb # NoCallback
                   THEN <<[kind |-> "found", arg |-> device, cb |-> cb,
                           seen |-> MapGet(inserted, device.name)]>>
                   ELSE <<>>]

\* the else branch of line 61 treated like the valid branch
OnRejectedInsert(m, cb, device) == OnValidated(m, cb, device)

\* lines 61-63: the device is not a fingerprint doorbell, only a log line
OnRejected(m, cb, device) == [map |-> m, notes |-> <<>>]

\* the raw found handler after "await isFingerprintDoorbell(device.ip)", lines
\* 57-63; an exception out of the await would reject the handler's promise
ValidationDone(d, outcome) ==
    LET r == isFingerprintDoorbell(outcome)
        eff == IF r.value THEN OnValidated(validatedDevices, deviceFoundCallback, d)
               ELSE OnRejected(validatedDevices, deviceFoundCallback, d)
    IN  /\ probes[d] > 0
        /\ probes' = [probes EXCEPT ![d] = @ - 1]
        /\ lastProbe' = [device |-> d, outcome |-> outcome, isValid |-> r.value,
                         threw |-> r.threw, before |-> validatedDevices]
        /\ lastLost' = None
        /\ lastAnnounce' = None
        /\ IF r.threw
           THEN /\ escaped' = escaped \cup {[from |-> "rawFound", device |-> d.name]}
                /\ emitted' = <<>>
                /\ UNCHANGED validatedDevices
           ELSE /\ validatedDevices' = eff.map
                /\ emitted' = eff.notes
                /\ UNCHANGED escaped
        /\ UNCHANGED <<discoveryInstance, deviceFoundCallback, deviceLostCallback,
                       ipcFoundListeners, ipcLostListeners, rawDevices, browserRunning,
                       mainInbox, rawEvents, lastRaw, lostNotified, mounted, mounts>>
        /\ UNCHANGED <<impVars, fpVars, regVars>>

\* the probe's fetch resolves with an HTTP response
ProbeResponse(d, status) ==
    ValidationDone(d, [kind |-> "response", status |-> status])

\* the 3000 ms timer fires first: controller.abort() rejects the fetch
ProbeTimeout(d) ==
    ValidationDone(d, [kind |-> "timeout", status |-> 0])

\* the fetch rejects: connection refused, DNS failure
ProbeTransportFailure(d) ==
    ValidationDone(d, [kind |-> "transport", status |-> 0])

\* main.js bonjour.find callback and the renderer's 'mdns:device-found' listener:
\* the raw found handler of the validator up to its await (lines 54-56)
RawFound(d) ==
    /\ browserRunning
    /\ rawEvents < MaxRawEvents
    /\ rawEvents' = rawEvents + 1
    /\ rawDevices' = MapSet(rawDevices, d.name, d)
    /\ IF ipcFoundListeners > 0
       THEN /\ probes' = [probes EXCEPT ![d] = @ + 1]
            /\ lastRaw' = [lastRaw EXCEPT ![d.name] = "found"]
            /\ lostNotified' = [lostNotified EXCEPT ![d.name] = FALSE]
       ELSE UNCHANGED <<probes, lastRaw, lostNotified>>
    /\ lastAnnounce' = [kind |-> "found", name |-> d.name, handled |-> ipcFoundListeners > 0,
                        callback |-> deviceFoundCallback,
                        validated |-> MapHas(validatedDevices, d.name)]
    /\ lastProbe' = None
    /\ lastLost' = None
    /\ emitted' = <<>>
    /\ UNCHANGED <<discoveryInstance, validatedDevices, deviceFoundCallback, deviceLostCallback,
                   ipcFoundListeners, ipcLostListeners, browserRunning, mainInbox,
                   escaped, mounted, mounts>>
    /\ UNCHANGED <<impVars, fpVars, regVars>>

\* the raw lost handler without its "has" test: it deletes and notifies always
OnLostAlways(m, cb, n) ==
    [map |-> MapDelete(m, n),
     notes |-> IF cb # NoCallback
               THEN <<[kind |-> "lost", arg |-> [name |-> n], cb |-> cb, seen |-> None]>>
               ELSE <<>>]

\* lines 67-71: if (validatedDevices.has(device.name)) { delete; deviceLostCallback?.(device) }
OnLost(m, cb, n) ==
    IF MapHas(m, n)
    THEN [map |-> MapDelete(m, n),
          notes |-> IF cb # NoCallback
                    THEN <<[kind |-> "lost", arg |-> [name |-> n], cb |-> cb, seen |-> None]>>
                    ELSE <<>>]
    ELSE [map |-> m, notes |-> <<>>]

\* main.js browser.on('down') and the renderer's 'mdns:device-lost' listener:
\* the raw lost handler of the validator (lines 66-72)
RawLost(n) ==
    /\ browserRunning
    /\ rawEvents < MaxRawEvents
    /\ rawEvents' = rawEvents + 1
    /\ rawDevices' = MapDelete(rawDevices, n)
    /\ IF ipcLostListeners > 0
       THEN LET eff == OnLost(validatedDevices, deviceLostCallback, n)
            IN  /\ lastRaw' = [lastRaw EXCEPT ![n] = "lost"]
                /\ validatedDevices' = eff.map
                /\ emitted' = eff.notes
                /\ lastLost' = [name |-> n, before |-> validatedDevices,
                                repeat |-> lostNotified[n]]
                /\ lostNotified' = [lostNotified EXCEPT ![n] = @ \/ eff.notes # <<>>]
       ELSE /\ emitted' = <<>>
            /\ lastLost' = None
            /\ UNCHANGED <<lastRaw, validatedDevices, lostNotified>>
    /\ lastAnnounce' = [kind |-> "lost", name |-> n, handled |-> ipcLostListeners > 0,
                        callback |-> deviceLostCallback,
                        validated |-> MapHas(validatedDevices, n)]
    /\ lastProbe' = None
    /\ UNCHANGED <<discoveryInstance, deviceFoundCallback, deviceLostCallback,
                   ipcFoundListeners, ipcLostListeners, browserRunning, mainInbox,
                   probes, escaped, mounted, mounts>>
    /\ UNCHANGED <<impVars, fpVars, regVars>>

\* getDiscoveryService without the "if (discoveryInstance)" test of line 202
getDiscoveryServiceAlwaysNew(instance) ==
    [instance |-> "validating", created |-> TRUE]

\* getDiscoveryService (lines 201-215) under Electron: the existing instance if
\* there is one, else createValidatingDiscovery(createElectronDiscovery()), which
\* makes the validatedDevices Map and registers the two raw handlers
getDiscoveryService(instance) ==
    IF instance # "null"
    THEN [instance |-> instance, created |-> FALSE]
    ELSE [instance |-> "validating", created |-> TRUE]

\* the mount effect of SensorListScreen: getDiscoveryService() (which creates the
\* validating service on first use and registers its raw handlers through
\* preload.js), onDeviceFound, onDeviceLost, startDiscovery
ScreenMount ==
    /\ ~mounted
    /\ mounts < MaxMounts
    /\ mounted' = TRUE
    /\ mounts' = mounts + 1
    /\ LET got == getDiscoveryService(discoveryInstance)
       IN  /\ discoveryInstance' = got.instance
           /\ IF got.created
              THEN /\ validatedDevices' = EmptyMap
                   /\ ipcFoundListeners' = ipcFoundListeners + 1
                   /\ ipcLostListeners' = ipcLostListeners + 1
              ELSE UNCHANGED <<validatedDevices, ipcFoundListeners, ipcLostListeners>>
    /\ deviceFoundCallback' = mounts + 1
    /\ deviceLostCallback' = mounts + 1
    /\ mainInbox' = Append(mainInbox, "mdns:start-discovery")
    /\ lastProbe' = None
    /\ lastLost' = None
    /\ lastAnnounce' = None
    /\ emitted' = <<>>
    /\ UNCHANGED <<rawDevices, browserRunning, probes, rawEvents, lastRaw, lostNotified,
                   escaped>>
    /\ UNCHANGED <<impVars, fpVars, regVars>>

\* the cleanup of the mount effect: stopDiscovery(), removeListeners()
ScreenUnmount ==
    /\ mounted
    /\ mounted' = FALSE
    /\ mainInbox' = Append(mainInbox, "mdns:stop-discovery")
    /\ deviceFoundCallback' = NoCallback
    /\ deviceLostCallback' = NoCallback
    /\ ipcFoundListeners' = 0
    /\ ipcLostListeners' = 0
    /\ lastProbe' = None
    /\ lastLost' = None
    /\ lastAnnounce' = None
    /\ emitted' = <<>>
    /\ UNCHANGED <<discoveryInstance, validatedDevices, rawDevices, browserRunning, probes,
                   rawEvents, lastRaw, lostNotified, escaped, mounts>>
    /\ UNCHANGED <<impVars, fpVars, regVars>>

\* main.js ipcMain.handle('mdns:start-discovery') and ('mdns:stop-discovery')
MainHandle ==
    /\ Len(mainInbox) > 0
    /\ mainInbox' = Tail(mainInbox)
    /\ IF Head(mainInbox) = "mdns:start-discovery"
       THEN /\ rawDevices' = EmptyMap
            /\ browserRunning' = TRUE
            /\ lastAnnounce' = [kind |-> "start", afterStop |-> ~browserRunning]
       ELSE /\ browserRunning' = FALSE
            /\ lastAnnounce' = [kind |-> "stop"]
            /\ UNCHANGED rawDevices
    /\ lastProbe' = None
    /\ lastLost' = None
    /\ emitted' = <<>>
    /\ UNCHANGED <<discoveryInstance, validatedDevices, deviceFoundCallback, deviceLostCallback,
                   ipcFoundListeners, ipcLostListeners, probes, rawEvents, lastRaw,
                   lostNotified, escaped, mounted, mounts>>
    /\ UNCHANGED <<impVars, fpVars, regVars>>

\* the application after start: main.js has created the window and started the
\* browser (app.whenReady), the renderer has not asked for the service yet
InitDiscovery ==
    /\ discoveryInstance = "null"
    /\ validatedDevices = EmptyMap
    /\ deviceFoundCallback = NoCallback
    /\ deviceLostCallback = NoCallback
    /\ ipcFoundListeners = 0
    /\ ipcLostListeners = 0
    /\ rawDevices = EmptyMap
    /\ browserRunning = TRUE
    /\ mainInbox = <<>>
    /\ probes = [d \in Devices |-> 0]
    /\ rawEvents = 0
    /\ lastRaw = [n \in DeviceNames |-> "none"]
    /\ lastAnnounce = None
    /\ lastProbe = None
    /\ lastLost = None
    /\ lostNotified = [n \in DeviceNames |-> FALSE]
    /\ emitted = <<>>
    /\ escaped = {}
    /\ mounted = FALSE
    /\ mounts = 0

-----------------------------------------------------------------------------
(* FingerprintListScreen, src/src/screens/SensorFormScreen.tsx             *)

\* largest fingerprint id a device lists
MaxFpId == 4

\* enrollments started in one run
MaxEnrollments == 1

\* getStatus calls of one enrollment's polling that are in flight at once
MaxPollsInFlight == 2

\* pairSensor requests in flight at once (onSubmitEditing is not disabled
\* while a request is pending)
MaxPairsInFlight == 2

RECURSIVE Orderings(_)
Orderings(S) ==
    IF S = {} THEN {<<>>}
    ELSE UNION {{<<x>> \o q : q \in Orderings(S \ {x})} : x \in S}

\* what GET /fingerprints answers: the stored fingerprints, each id once, in
\* the device's order
FingerprintLists ==
    UNION {{[k \in 1..Len(q) |-> [id |-> q[k], name |-> "finger"]] : q \in Orderings(S)} :
              S \in SUBSET (1..MaxFpId)}

IsWhitespace(c) == c \in {" ", "\t", "\n"}

\* String.prototype.trim: leading and trailing whitespace removed
RECURSIVE TrimStart(_)
TrimStart(str) ==
    IF Len(str) > 0 /\ IsWhitespace(str[1]) THEN TrimStart(Tail(str)) ELSE str

RECURSIVE TrimEnd(_)
TrimEnd(str) ==
    IF Len(str) > 0 /\ IsWhitespace(str[Len(str)])
    THEN TrimEnd(SubSeq(str, 1, Len(str) - 1)) ELSE str

\* trim left out: the string as entered
TrimNothing(str) == str

Trim(str) == TrimEnd(TrimStart(str))

\* the character class [0-9a-fA-F]
HexChars ==
    {"0","1","2","3","4","5","6","7","8","9",
     "a","b","c","d","e","f","A","B","C","D","E","F"}

\* the regular expression with {1,} for {1,8}
HexRegexNoUpperBound(str) ==
    Len(str) >= 1 /\ \A k \in 1..Len(str) : str[k] \in HexChars

\* /^[0-9a-fA-F]{1,8}$/.test(str)
HexRegex(str) ==
    /\ Len(str) >= 1
    /\ Len(str) <= 8
    /\ \A k \in 1..Len(str) : str[k] \in HexChars

\* texts entered in the enroll name field
EnrollNames == {<<>>, <<" ", " ">>, <<"A","n","n","a">>, <<" ","B","o"," ">>}

\* texts entered in the pair password field (the field has maxLength 8; the
\* nine character text is what handlePair's own test is for)
PairPasswords ==
    {<<>>, <<" ", " ", " ">>, <<"1">>, <<"1","2","3","4","5","6","7","8">>,
     <<"a","b","c","D","E","F","0","9">>, <<"1","2","3","4","5","6","7","8","9">>,
     <<"1","2","g","4">>, <<" ","1","a"," ">>, <<"1","2"," ","3","4">>,
     <<"1","2","3","4","5","6","7"," ">>}

\* getNextId as "largest id plus one"
getNextIdAfterLargest(fps) ==
    IF Len(fps) = 0 THEN 1
    ELSE (CHOOSE m \in {fps[k].id : k \in 1..Len(fps)} :
             \A k \in 1..Len(fps) : fps[k].id <= m) + 1

\* the while loop of getNextId (lines 723-725)
RECURSIVE NextUnused(_, _)
NextUnused(usedIds, nextId) ==
    IF nextId \in usedIds THEN NextUnused(usedIds, nextId + 1) ELSE nextId

\* getNextId (lines 719-727) over the fingerprints state
getNextId(fps) ==
    IF Len(fps) = 0 THEN 1
    ELSE NextUnused({fps[k].id : k \in 1..Len(fps)}, 1)

\* the call pairSensor(sensor, password) of line 859, which sends the pair request
PairRequest(password) == [call |-> "pairSensor", password |-> password]

\* useFocusEffect, onRefresh: fetchFingerprints() up to await getStatus(sensor);
\* one fetchFingerprints runs at a time
FetchStart ==
    /\ fetchPc = "idle"
    /\ fetchPc' = "status"
    /\ fpLast' = None
    /\ UNCHANGED <<fingerprints, sensorPaired, enrolling, pairsInFlight>>
    /\ UNCHANGED enrVars
    /\ UNCHANGED copyVars
    /\ UNCHANGED <<impVars, discVars, regVars>>

\* getStatus settles: paired -> listFingerprints is requested; not paired ->
\* setFingerprints([]); rejected -> setError
FetchStatus(outcome) ==
    /\ fetchPc = "status"
    /\ fpLast' = None
    /\ CASE outcome = "paired" ->
                /\ sensorPaired' = TRUE
                /\ fetchPc' = "list"
                /\ UNCHANGED fingerprints
         [] outcome = "unpaired" ->
                /\ sensorPaired' = FALSE
                /\ fingerprints' = <<>>
                /\ fetchPc' = "idle"
         [] OTHER ->
                /\ fetchPc' = "idle"
                /\ UNCHANGED <<sensorPaired, fingerprints>>
    /\ UNCHANGED <<enrolling, pairsInFlight>>
    /\ UNCHANGED enrVars
    /\ UNCHANGED copyVars
    /\ UNCHANGED <<impVars, discVars, regVars>>

\* listFingerprints resolves with data: setFingerprints(data)
FetchList(data) ==
    /\ fetchPc = "list"
    /\ fetchPc' = "idle"
    /\ fingerprints' = data
    /\ fpLast' = None
    /\ UNCHANGED <<sensorPaired, enrolling, pairsInFlight>>
    /\ UNCHANGED enrVars
    /\ UNCHANGED copyVars
    /\ UNCHANGED <<impVars, discVars, regVars>>

\* listFingerprints rejects: setError
FetchListFails ==
    /\ fetchPc = "list"
    /\ fetchPc' = "idle"
    /\ fpLast' = None
    /\ UNCHANGED <<fingerprints, sensorPaired, enrolling, pairsInFlight>>
    /\ UNCHANGED enrVars
    /\ UNCHANGED copyVars
    /\ UNCHANGED <<impVars, discVars, regVars>>

\* openEnrollModal (lines 729-734), from the + button of the list
OpenEnrollModal ==
    /\ ~enrollModalVisible
    /\ enrollModalVisible' = TRUE
    /\ enrolling' = FALSE
    /\ enrollStatus' = ""
    /\ fpLast' = None
    /\ UNCHANGED <<fingerprints, sensorPaired, fetchPc, pairsInFlight>>
    /\ UNCHANGED <<enrollCount, sessions, cancelPending>>
    /\ UNCHANGED copyVars
    /\ UNCHANGED <<impVars, discVars, regVars>>

\* the dialog's Cancel button, rendered while !enrolling: setEnrollModalVisible(false)
CloseEnrollModal ==
    /\ enrollModalVisible
    /\ ~enrolling
    /\ enrollModalVisible' = FALSE
    /\ fpLast' = None
    /\ UNCHANGED <<fingerprints, sensorPaired, fetchPc, enrolling, pairsInFlight>>
    /\ UNCHANGED <<enrollStatus, enrollCount, sessions, cancelPending>>
    /\ UNCHANGED copyVars
    /\ UNCHANGED <<impVars, discVars, regVars>>

\* handleEnroll up to await enrollFingerprint(sensor, nextId, name); the Start
\* button and the name field are rendered only while !enrolling
HandleEnroll(enrollName) ==
    /\ enrollModalVisible
    /\ ~enrolling
    /\ enrollCount < MaxEnrollments
    /\ IF Len(Trim(enrollName)) = 0
       THEN /\ fpLast' = [kind |-> "enroll", list |-> fingerprints, issued |-> FALSE,
                          id |-> 0, name |-> <<>>,
                          alert |-> "Please enter a name for the fingerprint."]
            /\ UNCHANGED <<enrolling, enrollStatus, enrollCount, sessions>>
       ELSE /\ fpLast' = [kind |-> "enroll", list |-> fingerprints, issued |-> TRUE,
                          id |-> getNextId(fingerprints), name |-> Trim(enrollName),
                          alert |-> ""]
            /\ enrolling' = TRUE
            /\ enrollStatus' = "Starting enrollment..."
            /\ enrollCount' = enrollCount + 1
            /\ sessions' = [sessions EXCEPT ![enrollCount + 1].pc = "request"]
    /\ UNCHANGED <<fingerprints, sensorPaired, fetchPc, pairsInFlight>>
    /\ UNCHANGED <<enrollModalVisible, cancelPending>>
    /\ UNCHANGED copyVars
    /\ UNCHANGED <<impVars, discVars, regVars>>

\* await enrollFingerprint(...) rejects: the catch of lines 767-771
EnrollReject(e) ==
    /\ sessions[e].pc = "request"
    /\ sessions' = [sessions EXCEPT ![e].pc = "cleared"]
    /\ enrolling' = FALSE
    /\ enrollStatus' = ""
    /\ fpLast' = None
    /\ UNCHANGED <<fingerprints, sensorPaired, fetchPc, pairsInFlight>>
    /\ UNCHANGED <<enrollModalVisible, enrollCount, cancelPending>>
    /\ UNCHANGED copyVars
    /\ UNCHANGED <<impVars, discVars, regVars>>

\* await enrollFingerprint(...) resolves: setEnrollStatus, setInterval(..., 2000)
EnrollResolve(e) ==
    /\ sessions[e].pc = "request"
    /\ sessions' = [sessions EXCEPT ![e].pc = "polling"]
    /\ enrollStatus' = "Enrollment started"
    /\ fpLast' = None
    /\ UNCHANGED <<fingerprints, sensorPaired, fetchPc, enrolling, pairsInFlight>>
    /\ UNCHANGED <<enrollModalVisible, enrollCount, cancelPending>>
    /\ UNCHANGED copyVars
    /\ UNCHANGED <<impVars, discVars, regVars>>

\* the interval timer of enrollment e fires: the callback calls getStatus(sensor)
\* and suspends; the timer does not wait for the previous call to settle
PollTick(e) ==
    /\ sessions[e].pc = "polling"
    /\ sessions[e].polls < MaxPollsInFlight
    /\ sessions' = [sessions EXCEPT ![e].polls = @ + 1]
    /\ fpLast' = [kind |-> "tick", session |-> e, outcome |-> "",
                  lostBefore |-> sessions[e].lost, cancelledBefore |-> sessions[e].cancelled,
                  stoppedBefore |-> FALSE, changed |-> FALSE]
    /\ UNCHANGED <<fingerprints, sensorPaired, fetchPc, enrolling, pairsInFlight>>
    /\ UNCHANGED <<enrollModalVisible, enrollStatus, enrollCount, cancelPending>>
    /\ UNCHANGED copyVars
    /\ UNCHANGED <<impVars, discVars, regVars>>

\* what the user sees of the enrollment
EnrollScreen == <<enrolling, enrollModalVisible, enrollStatus, fetchPc>>

\* a getStatus call of enrollment e resolves (lines 754-760): a device that is
\* still enrolling changes nothing; otherwise clearInterval, setEnrolling(false),
\* setEnrollModalVisible(false), fetchFingerprints()
PollResolve(e, stillEnrolling) ==
    /\ sessions[e].polls > 0
    /\ IF stillEnrolling
       THEN /\ sessions' = [sessions EXCEPT ![e].polls = @ - 1]
            /\ UNCHANGED <<enrolling, enrollModalVisible, fetchPc>>
       ELSE /\ sessions' = [sessions EXCEPT ![e].polls = @ - 1, ![e].pc = "cleared"]
            /\ enrolling' = FALSE
            /\ enrollModalVisible' = FALSE
            /\ fetchPc' = IF fetchPc = "idle" THEN "status" ELSE fetchPc
    /\ UNCHANGED <<fingerprints, sensorPaired, pairsInFlight>>
    /\ UNCHANGED <<enrollStatus, enrollCount, cancelPending>>
    /\ UNCHANGED copyVars
    /\ UNCHANGED <<impVars, discVars, regVars>>
    /\ fpLast' = [kind |-> "poll", session |-> e,
                  outcome |-> IF stillEnrolling THEN "enrolling" ELSE "finished",
                  lostBefore |-> sessions[e].lost, cancelledBefore |-> sessions[e].cancelled,
                  stoppedBefore |-> sessions[e].pc = "cleared",
                  changed |-> EnrollScreen' # EnrollScreen]

\* a getStatus call of enrollment e rejects (lines 761-765): clearInterval,
\* setEnrolling(false), setEnrollStatus('Lost connection to sensor.')
PollReject(e) ==
    /\ sessions[e].polls > 0
    /\ sessions' = [sessions EXCEPT ![e].polls = @ - 1, ![e].pc = "cleared", ![e].lost = TRUE]
    /\ enrolling' = FALSE
    /\ enrollStatus' = "Lost connection to sensor."
    /\ UNCHANGED <<fingerprints, sensorPaired, fetchPc, pairsInFlight>>
    /\ UNCHANGED <<enrollModalVisible, enrollCount, cancelPending>>
    /\ UNCHANGED copyVars
    /\ UNCHANGED <<impVars, discVars, regVars>>
    /\ fpLast' = [kind |-> "poll", session |-> e, outcome |-> "failed",
                  lostBefore |-> sessions[e].lost, cancelledBefore |-> sessions[e].cancelled,
                  stoppedBefore |-> sessions[e].pc = "cleared",
                  changed |-> EnrollScreen' # EnrollScreen]

\* handleCancelEnroll up to await cancelEnrollment(sensor); the Cancel Enrollment
\* button is rendered while enrolling; one cancel request at a time
HandleCancelEnroll ==
    /\ enrollModalVisible
    /\ enrolling
    /\ cancelPending = 0
    /\ cancelPending' = enrollCount
    /\ fpLast' = [kind |-> "cancel", session |-> enrollCount, outcome |-> "",
                  lostBefore |-> FALSE, cancelledBefore |-> FALSE,
                  stoppedBefore |-> FALSE, changed |-> FALSE]
    /\ UNCHANGED <<fingerprints, sensorPaired, fetchPc, enrolling, pairsInFlight>>
    /\ UNCHANGED <<enrollModalVisible, enrollStatus, enrollCount, sessions>>
    /\ UNCHANGED copyVars
    /\ UNCHANGED <<impVars, discVars, regVars>>

\* cancelEnrollment settles; a rejection is swallowed by the empty catch; then
\* setEnrolling(false), setEnrollModalVisible(false). The enrollment that was
\* in progress is cancelled from here on; its timer is not touched
CancelSettles(ok) ==
    /\ cancelPending # 0
    /\ cancelPending' = 0
    /\ enrolling' = FALSE
    /\ enrollModalVisible' = FALSE
    /\ sessions' = [sessions EXCEPT ![cancelPending].cancelled = TRUE]
    /\ UNCHANGED <<fingerprints, sensorPaired, fetchPc, pairsInFlight>>
    /\ UNCHANGED <<enrollStatus, enrollCount>>
    /\ UNCHANGED copyVars
    /\ UNCHANGED <<impVars, discVars, regVars>>
    /\ fpLast' = [kind |-> "cancelled", session |-> cancelPending,
                  outcome |-> IF ok THEN "ok" ELSE "failed",
                  lostBefore |-> FALSE, cancelledBefore |-> FALSE,
                  stoppedBefore |-> FALSE, changed |-> EnrollScreen' # EnrollScreen]

\* the id choice with the source id kept whatever the target lists
CopyImportIdKeepsSource(sourceId, targetFingerprints) == sourceId

\* lines 809-816: usedIds of the target list; newId = copyTarget.id, and when
\* that is used, newId = 1 counted up while it is used
CopyImportId(sourceId, targetFingerprints) ==
    LET usedIds == {targetFingerprints[k].id : k \in 1..Len(targetFingerprints)}
    IN  IF sourceId \in usedIds THEN NextUnused(usedIds, 1) ELSE sourceId

\* lengths of the template text the source device exports
ExportedLengths == {0, 1, CHUNK_SIZE, CHUNK_SIZE + 1, MaxChunks * CHUNK_SIZE}

\* handleCopyTo (lines 797-837) for the chosen fingerprint, up to
\* await exportTemplate(sensor, copyTarget.id)
HandleCopyTo(sourceId) ==
    /\ copyPc = "idle"
    /\ copyTarget' = sourceId
    /\ copyPc' = "export"
    /\ copyLog' = Append(copyLog, [kind |-> "export", id |-> sourceId, chunk |-> 0])
    /\ fpLast' = None
    /\ UNCHANGED <<copyFetched, copyTotal, copySent, copyNewId>>
    /\ UNCHANGED <<fingerprints, sensorPaired, fetchPc, enrolling, pairsInFlight, enrVars>>
    /\ UNCHANGED <<impVars, discVars, regVars>>

\* exportTemplate resolves with a template of len characters, or rejects; on
\* success handleCopyTo goes on to await listFingerprints(targetSensor)
ExportSettles(ok, len) ==
    /\ copyPc = "export"
    /\ IF ok
       THEN /\ copyPc' = "list"
            /\ copyTotal' = MathCeilDiv(len, CHUNK_SIZE)
            /\ copyLog' = Append(copyLog, [kind |-> "list", id |-> 0, chunk |-> 0])
       ELSE /\ copyPc' = "failed"
            /\ UNCHANGED <<copyTotal, copyLog>>
    /\ fpLast' = None
    /\ UNCHANGED <<copyTarget, copyFetched, copySent, copyNewId>>
    /\ UNCHANGED <<fingerprints, sensorPaired, fetchPc, enrolling, pairsInFlight, enrVars>>
    /\ UNCHANGED <<impVars, discVars, regVars>>

\* listFingerprints(targetSensor) rejects: the catch block
CopyListRejects ==
    /\ copyPc = "list"
    /\ copyPc' = "failed"
    /\ fpLast' = None
    /\ UNCHANGED <<copyTarget, copyFetched, copyTotal, copySent, copyNewId, copyLog>>
    /\ UNCHANGED <<fingerprints, sensorPaired, fetchPc, enrolling, pairsInFlight, enrVars>>
    /\ UNCHANGED <<impVars, discVars, regVars>>

\* listFingerprints(targetSensor) resolves with data: the id is chosen and
\* importTemplate(targetSensor, importData) runs up to the await of its first
\* chunk; with no chunk to send it throws and the catch block runs
CopyListResolves(data) ==
    /\ copyPc = "list"
    /\ copyFetched' = data
    /\ copyNewId' = CopyImportId(copyTarget, data)
    /\ IF copyTotal = 0
       THEN /\ copyPc' = "failed"
            /\ UNCHANGED <<copySent, copyLog>>
       ELSE /\ copyPc' = "import"
            /\ copySent' = 1
            /\ copyLog' = Append(copyLog, [kind |-> "chunk",
                                           id |-> CopyImportId(copyTarget, data), chunk |-> 0])
    /\ fpLast' = None
    /\ UNCHANGED <<copyTarget, copyTotal>>
    /\ UNCHANGED <<fingerprints, sensorPaired, fetchPc, enrolling, pairsInFlight, enrVars>>
    /\ UNCHANGED <<impVars, discVars, regVars>>

\* the chunk awaited by importTemplate is answered: not ok throws; the last
\* chunk ends the copy; otherwise the next chunk is sent
CopyChunkSettles(ok) ==
    /\ copyPc = "import"
    /\ IF ~ok
       THEN /\ copyPc' = "failed"
            /\ UNCHANGED <<copySent, copyLog>>
       ELSE IF IsLast(copySent - 1, copyTotal)
       THEN /\ copyPc' = "done"
            /\ UNCHANGED <<copySent, copyLog>>
       ELSE /\ copySent' = copySent + 1
            /\ copyLog' = Append(copyLog, [kind |-> "chunk", id |-> copyNewId,
                                           chunk |-> copySent])
            /\ UNCHANGED copyPc
    /\ fpLast' = None
    /\ UNCHANGED <<copyTarget, copyFetched, copyTotal, copyNewId>>
    /\ UNCHANGED <<fingerprints, sensorPaired, fetchPc, enrolling, pairsInFlight, enrVars>>
    /\ UNCHANGED <<impVars, discVars, regVars>>

\* handlePair (lines 845-868) up to await pairSensor(sensor, pairPassword.trim())
HandlePair(pairPassword) ==
    /\ pairsInFlight < MaxPairsInFlight
    /\ IF Len(Trim(pairPassword)) = 0
       THEN /\ fpLast' = [kind |-> "pair", entered |-> pairPassword, issued |-> FALSE,
                          request |-> None,
                          alert |-> "Please enter a password (8 hex digits, e.g. 12345678)"]
            /\ UNCHANGED pairsInFlight
       ELSE IF ~HexRegex(Trim(pairPassword))
       THEN /\ fpLast' = [kind |-> "pair", entered |-> pairPassword, issued |-> FALSE,
                          request |-> None,
                          alert |-> "Password must be 1-8 hex digits (0-9, A-F)"]
            /\ UNCHANGED pairsInFlight
       ELSE /\ fpLast' = [kind |-> "pair", entered |-> pairPassword, issued |-> TRUE,
                          request |-> PairRequest(Trim(pairPassword)), alert |-> ""]
            /\ pairsInFlight' = pairsInFlight + 1
    /\ UNCHANGED <<fingerprints, sensorPaired, fetchPc, enrolling>>
    /\ UNCHANGED enrVars
    /\ UNCHANGED copyVars
    /\ UNCHANGED <<impVars, discVars, regVars>>

\* pairSensor resolves: setSensorPaired(true), fetchFingerprints()
PairResolve ==
    /\ pairsInFlight > 0
    /\ pairsInFlight' = pairsInFlight - 1
    /\ sensorPaired' = TRUE
    /\ fetchPc' = IF fetchPc = "idle" THEN "status" ELSE fetchPc
    /\ fpLast' = None
    /\ UNCHANGED <<fingerprints, enrolling>>
    /\ UNCHANGED enrVars
    /\ UNCHANGED copyVars
    /\ UNCHANGED <<impVars, discVars, regVars>>

\* pairSensor rejects: the alert of the catch block
PairReject ==
    /\ pairsInFlight > 0
    /\ pairsInFlight' = pairsInFlight - 1
    /\ fpLast' = None
    /\ UNCHANGED <<fingerprints, sensorPaired, fetchPc, enrolling>>
    /\ UNCHANGED enrVars
    /\ UNCHANGED copyVars
    /\ UNCHANGED <<impVars, discVars, regVars>>

\* the screen as first rendered
InitFingerprints ==
    /\ fingerprints = <<>>
    /\ sensorPaired = "null"
    /\ fetchPc = "idle"
    /\ enrolling = FALSE
    /\ pairsInFlight = 0
    /\ fpLast = None
    /\ enrollModalVisible = FALSE
    /\ enrollStatus = ""
    /\ enrollCount = 0
    /\ sessions = [e \in 1..MaxEnrollments |->
                     [pc |-> "idle", polls |-> 0, cancelled |-> FALSE, lost |-> FALSE]]
    /\ cancelPending = 0
    /\ copyPc = "idle"
    /\ copyTarget = 0
    /\ copyFetched = <<>>
    /\ copyTotal = 0
    /\ copySent = 0
    /\ copyNewId = 0
    /\ copyLog = <<>>

-----------------------------------------------------------------------------
(* src/src/services/storage.ts and its callers                             *)

\* storage.ts operations called in one run
MaxRegistryOps == 3

\* the values Date.now() returns in one run (milliseconds, counted from the start)
ClockValues == {1, 2}

\* AsyncStorage.getItem resolves with null: nothing stored under the key
NoItem == <<>>

\* what the add and edit forms hold when Save is pressed, already trimmed
FormInputs ==
    {[name |-> "Front", ipAddress |-> "192.168.1.10", apiKey |-> "k3y"],
     [name |-> "", ipAddress |-> "192.168.1.12", apiKey |-> ""],
     [name |-> "Side", ipAddress |-> "", apiKey |-> ""]}

\* JSON.stringify of one SensorConfig, as tokens
StringifySensor(sensor) ==
    <<"{", "id", sensor.id, "name", sensor.name,
      "ipAddress", sensor.ipAddress, "apiKey", sensor.apiKey, "}">>

RECURSIVE StringifyItems(_)
StringifyItems(sensors) ==
    IF Len(sensors) = 0 THEN <<>>
    ELSE IF Len(sensors) = 1 THEN StringifySensor(sensors[1])
    ELSE StringifySensor(sensors[1]) \o <<",">> \o StringifyItems(Tail(sensors))

\* JSON.stringify with the apiKey property left out
StringifySensorsNoKey(sensors) ==
    <<"[">> \o StringifyItems([k \in 1..Len(sensors) |->
                                  [sensors[k] EXCEPT !.apiKey = ""]]) \o <<"]">>

\* JSON.stringify(sensors)
StringifySensors(sensors) == <<"[">> \o StringifyItems(sensors) \o <<"]">>

\* the object that starts at token pos
ParseSensor(json, pos) ==
    LET value(key) == json[CHOOSE k \in (pos + 1)..(pos + 8) : json[k - 1] = key /\ (k - pos) % 2 = 0]
    IN  [id |-> json[pos + 2], name |-> value("name"),
         ipAddress |-> value("ipAddress"), apiKey |-> value("apiKey")]

RECURSIVE ParseItems(_, _)
ParseItems(json, pos) ==
    IF json[pos + 10] = ","
    THEN <<ParseSensor(json, pos)>> \o ParseItems(json, pos + 11)
    ELSE <<ParseSensor(json, pos)>>

\* JSON.parse(json) of a stored array
ParseSensors(json) ==
    IF json[2] = "]" THEN <<>> ELSE ParseItems(json, 2)

\* loadSensors (lines 6-10) given the item getItem resolved with
loadSensors(item) == IF Len(item) = 0 THEN <<>> ELSE ParseSensors(item)

\* sensors.unshift(sensor) for sensors.push(sensor)
PushFront(sensors, sensor) == <<sensor>> \o sensors

\* addSensor line 18: sensors.push(sensor)
Push(sensors, sensor) == Append(sensors, sensor)

\* updateSensor line 24: sensors.findIndex((s) => s.id === sensor.id), 0 for -1
FindIndex(sensors, id) ==
    IF \E k \in 1..Len(sensors) : sensors[k].id = id
    THEN CHOOSE k \in 1..Len(sensors) :
            sensors[k].id = id /\ \A j \in 1..(k - 1) : sensors[j].id # id
    ELSE 0

\* deleteSensor line 33 removing the first match only
FilterFirst(sensors, id) ==
    IF FindIndex(sensors, id) = 0 THEN sensors
    ELSE [k \in 1..(Len(sensors) - 1) |->
             IF k < FindIndex(sensors, id) THEN sensors[k] ELSE sensors[k + 1]]

\* deleteSensor line 33: sensors.filter((s) => s.id !== id)
Filter(sensors, id) == SelectSeq(sensors, LAMBDA s : s.id # id)

\* updateSensor line 26 moving the record to the end of the array
ReplaceMovesLast(sensors, index, sensor) ==
    [k \in 1..Len(sensors) |->
        IF k < index THEN sensors[k]
        ELSE IF k < Len(sensors) THEN sensors[k + 1] ELSE sensor]

\* updateSensor line 26: sensors[index] = sensor
Replace(sensors, index, sensor) == [sensors EXCEPT ![index] = sensor]

\* AsyncStorage.setItem keeping an item that is already there
SetItemKeepsFirst(current, value) == IF Len(current) = 0 THEN value ELSE current

\* AsyncStorage.setItem(SENSORS_KEY, value) (line 13): the item becomes value
SetItem(current, value) == value

\* an operation is called: it is alone if nothing else is in flight, and every
\* operation in flight stops being alone
CallOp(kind, via, sensor) ==
    /\ regCount < MaxRegistryOps
    /\ regCount' = regCount + 1
    /\ regOps' = Append([k \in 1..Len(regOps) |-> [regOps[k] EXCEPT !.alone = FALSE]],
                        [kind |-> kind, via |-> via, sensor |-> sensor, pc |-> "load",
                         toWrite |-> NoItem, atStart |-> storage, alone |-> Len(regOps) = 0,
                         loaded |-> NoItem, overtaken |-> FALSE])

\* the clock advances
Tick ==
    /\ now + 1 \in ClockValues
    /\ now' = now + 1
    /\ regDone' = None
    /\ UNCHANGED <<storage, regOps, regCount, listSensors>>
    /\ UNCHANGED <<impVars, discVars, fpVars>>

\* SensorListScreen gains focus: loadSensors().then(setSensors)
FocusLoad ==
    /\ listSensors' = loadSensors(storage)
    /\ listSensors' # listSensors
    /\ regDone' = None
    /\ UNCHANGED <<storage, now, regOps, regCount>>
    /\ UNCHANGED <<impVars, discVars, fpVars>>

\* handleSave of the add form (no route sensor), up to await addSensor(sensor);
\* a blank name or address only shows an alert
HandleSaveNew(form) ==
    /\ IF form.name = "" \/ form.ipAddress = ""
       THEN /\ regCount < MaxRegistryOps
            /\ UNCHANGED <<regOps, regCount>>
       ELSE CallOp("add", "form",
                   [id |-> NumberToString(now), name |-> form.name,
                    ipAddress |-> form.ipAddress, apiKey |-> form.apiKey])
    /\ regDone' = None
    /\ UNCHANGED <<storage, now, listSensors>>
    /\ UNCHANGED <<impVars, discVars, fpVars>>

\* handleSave of the edit form opened for a listed sensor, up to await
\* updateSensor(sensor)
HandleSaveEdit(existing, form) ==
    /\ form.name # ""
    /\ form.ipAddress # ""
    /\ CallOp("update", "form",
              [id |-> existing.id, name |-> form.name,
               ipAddress |-> form.ipAddress, apiKey |-> form.apiKey])
    /\ regDone' = None
    /\ UNCHANGED <<storage, now, listSensors>>
    /\ UNCHANGED <<impVars, discVars, fpVars>>

\* confirmAddDiscovered for a discovered device, up to await addSensor(newSensor)
ConfirmAddDiscovered(device) ==
    /\ CallOp("add", "discovered",
              [id |-> NumberToString(now), name |-> device.name,
               ipAddress |-> device.ip, apiKey |-> ""])
    /\ regDone' = None
    /\ UNCHANGED <<storage, now, listSensors>>
    /\ UNCHANGED <<impVars, discVars, fpVars>>

\* handleDelete and confirmDelete for a listed sensor, up to await deleteSensor(id)
ConfirmDelete(target) ==
    /\ CallOp("delete", "list", target)
    /\ regDone' = None
    /\ UNCHANGED <<storage, now, listSensors>>
    /\ UNCHANGED <<impVars, discVars, fpVars>>

\* regOps without its k-th operation
WithoutOp(k) == [j \in 1..(Len(regOps) - 1) |-> IF j < k THEN regOps[j] ELSE regOps[j + 1]]

\* await loadSensors() of operation k resolves; the operation runs on to its
\* await saveSensors(...), or ends (updateSensor finding no record)
LoadResolves(k) ==
    /\ regOps[k].pc = "load"
    /\ LET op == regOps[k]
           sensors == loadSensors(storage)
           index == FindIndex(sensors, op.sensor.id)
       IN  CASE op.kind = "add" ->
                  /\ regOps' = [regOps EXCEPT ![k].pc = "save", ![k].loaded = storage,
                                     ![k].toWrite = StringifySensors(Push(sensors, op.sensor))]
                  /\ regDone' = None
             [] op.kind = "delete" ->
                  /\ regOps' = [regOps EXCEPT ![k].pc = "save", ![k].loaded = storage,
                                     ![k].toWrite = StringifySensors(Filter(sensors, op.sensor.id))]
                  /\ regDone' = None
             [] op.kind = "update" /\ index # 0 ->
                  /\ regOps' = [regOps EXCEPT ![k].pc = "save", ![k].loaded = storage,
                                     ![k].toWrite = StringifySensors(Replace(sensors, index, op.sensor))]
                  /\ regDone' = None
             [] OTHER ->
                  /\ regOps' = WithoutOp(k)
                  /\ regDone' = [op EXCEPT !.loaded = storage]
    /\ UNCHANGED <<storage, now, regCount, listSensors>>
    /\ UNCHANGED <<impVars, discVars, fpVars>>

\* await saveSensors(...) of operation k resolves: the item is written, and the
\* caller goes on (confirmAddDiscovered and confirmDelete update the sensors
\* state, handleSave goes back to the list)
SaveResolves(k) ==
    /\ regOps[k].pc = "save"
    /\ storage' = SetItem(storage, regOps[k].toWrite)
    /\ regOps' = [j \in 1..(Len(regOps) - 1) |->
                    LET other == IF j < k THEN regOps[j] ELSE regOps[j + 1]
                    IN  IF other.pc = "save" THEN [other EXCEPT !.overtaken = TRUE] ELSE other]
    /\ regDone' = regOps[k]
    /\ listSensors' =
         CASE regOps[k].via = "discovered" -> Append(listSensors, regOps[k].sensor)
           [] regOps[k].via = "list" -> Filter(listSensors, regOps[k].sensor.id)
           [] OTHER -> listSensors
    /\ UNCHANGED <<now, regCount>>
    /\ UNCHANGED <<impVars, discVars, fpVars>>

\* a fresh installation: nothing stored, the list screen not yet loaded
InitRegistry ==
    /\ storage = NoItem
    /\ now = 1
    /\ regOps = <<>>
    /\ regDone = None
    /\ regCount = 0
    /\ listSensors = <<>>

Init == InitImport /\ InitDiscovery /\ InitFingerprints /\ InitRegistry

\* one importTemplate invocation, run from call to settlement
NextImport ==
    \E v \in {"t1"} :
        \/ \E s \in Sensors, t \in Templates : ImportCall(v, s, t)
        \/ FetchReject(v)
        \/ \E st \in Statuses, b \in Bodies : FetchRespond(v, st, b)
        \/ TextResolve(v)
        \/ TextReject(v)
        \/ JsonResolve(v)
        \/ JsonReject(v)

SpecImport == Init /\ [][NextImport]_vars

\* the device and the template of each of two transfers that run side by side:
\* "t1" copies fingerprint 7 (two chunks) to the first sensor, "t2" fingerprint
\* 12 (MaxChunks chunks) to the second
TargetOf(v) == CHOOSE s \in Sensors : s.id = (IF v = "t1" THEN "s1" ELSE "s2")

TemplatesOf(v) ==
    {t \in Templates :
        /\ t.id = (IF v = "t1" THEN 7 ELSE 12)
        /\ Len(t.template) = (IF v = "t1" THEN CHUNK_SIZE + 1 ELSE MaxChunks * CHUNK_SIZE)}

\* two importTemplate invocations interleaved at their suspension points; the
\* devices answer 200 or 404 with one of the two JSON bodies
NextImport2 ==
    \E v \in Inv :
        \/ \E t \in TemplatesOf(v) : ImportCall(v, TargetOf(v), t)
        \/ FetchReject(v)
        \/ \E st \in {200, 404}, b \in {bd \in Bodies : JsonValid(bd)} : FetchRespond(v, st, b)
        \/ TextResolve(v)
        \/ TextReject(v)
        \/ JsonResolve(v)
        \/ JsonReject(v)

SpecImport2 == Init /\ [][NextImport2]_vars

\* the discovery service under a screen that mounts and unmounts, the backend
\* emitting raw events and the probes completing in any order
NextDiscovery ==
    \/ ScreenMount
    \/ ScreenUnmount
    \/ MainHandle
    \/ \E d \in Devices : RawFound(d)
    \/ \E n \in DeviceNames : RawLost(n)
    \/ \E d \in Devices, st \in ProbeStatuses : ProbeResponse(d, st)
    \/ \E d \in Devices : ProbeTimeout(d)
    \/ \E d \in Devices : ProbeTransportFailure(d)

SpecDiscovery == Init /\ [][NextDiscovery]_vars

\* the fingerprint list screen: fetches of the list and starts of enrollments
NextFingerprints ==
    \/ FetchStart
    \/ \E outcome \in {"paired", "unpaired", "error"} : FetchStatus(outcome)
    \/ \E data \in FingerprintLists : FetchList(data)
    \/ FetchListFails
    \/ OpenEnrollModal
    \/ CloseEnrollModal
    \/ \E enrollName \in EnrollNames : HandleEnroll(enrollName)
    \/ \E e \in 1..MaxEnrollments : EnrollReject(e)

SpecFingerprints == Init /\ [][NextFingerprints]_vars

\* the lists the device answers with where the list's content plays no part
ShortLists == {data \in FingerprintLists : Len(data) <= 1 /\ \A k \in 1..Len(data) : data[k].id = 1}

\* the fingerprint list screen: pairing attempts and the fetches they start
NextPairing ==
    \/ FetchStart
    \/ \E outcome \in {"paired", "unpaired", "error"} : FetchStatus(outcome)
    \/ \E data \in ShortLists : FetchList(data)
    \/ FetchListFails
    \/ \E pairPassword \in PairPasswords : HandlePair(pairPassword)
    \/ PairResolve
    \/ PairReject

SpecPairing == Init /\ [][NextPairing]_vars

\* the fingerprint list screen: one copy of a fingerprint to another device
NextCopy ==
    \/ \E sourceId \in 1..MaxFpId : HandleCopyTo(sourceId)
    \/ \E ok \in BOOLEAN, len \in ExportedLengths : ExportSettles(ok, len)
    \/ CopyListRejects
    \/ \E data \in FingerprintLists : CopyListResolves(data)
    \/ \E ok \in BOOLEAN : CopyChunkSettles(ok)

SpecCopy == Init /\ [][NextCopy]_vars

\* the enrollment flow: the dialog, the enroll request, the interval timer and
\* its status polls, cancellation, and the refresh a finished enrollment starts
NextEnrollment ==
    \/ OpenEnrollModal
    \/ CloseEnrollModal
    \/ \E enrollName \in EnrollNames : HandleEnroll(enrollName)
    \/ \E e \in 1..MaxEnrollments : EnrollReject(e)
    \/ \E e \in 1..MaxEnrollments : EnrollResolve(e)
    \/ \E e \in 1..MaxEnrollments : PollTick(e)
    \/ \E e \in 1..MaxEnrollments, stillEnrolling \in BOOLEAN : PollResolve(e, stillEnrolling)
    \/ \E e \in 1..MaxEnrollments : PollReject(e)
    \/ HandleCancelEnroll
    \/ \E ok \in BOOLEAN : CancelSettles(ok)
    \/ \E outcome \in {"paired", "unpaired", "error"} : FetchStatus(outcome)
    \/ \E data \in ShortLists : FetchList(data)
    \/ FetchListFails

SpecEnrollment == Init /\ [][NextEnrollment]_vars

\* the registry under the screens' handlers, the storage requests resolving in
\* any order
NextRegistry ==
    \/ Tick
    \/ FocusLoad
    \/ \E form \in FormInputs : HandleSaveNew(form)
    \/ \E k \in 1..Len(listSensors), form \in FormInputs : HandleSaveEdit(listSensors[k], form)
    \/ \E device \in {d \in Devices : d.txt = "v1"} : ConfirmAddDiscovered(device)
    \/ \E k \in 1..Len(listSensors) : ConfirmDelete(listSensors[k])
    \/ \E k \in 1..Len(regOps) : LoadResolves(k)
    \/ \E k \in 1..Len(regOps) : SaveResolves(k)

SpecRegistry == Init /\ [][NextRegistry]_vars

-----------------------------------------------------------------------------
(* Properties of importTemplate                                            *)

\* the exchanges of invocation v, in the order they were issued
ExchangesOf(v) == SelectSeq(net, LAMBDA e : e.inv = v)

DigitValue(c) == CHOOSE d \in 0..9 : Digits[d + 1] = c

\* the number a decimal digit string denotes
RECURSIVE StrToNat(_)
StrToNat(ds) ==
    IF Len(ds) = 0 THEN 0
    ELSE 10 * StrToNat(SubSeq(ds, 1, Len(ds) - 1)) + DigitValue(ds[Len(ds)])

Is2xx(status) == status \in 200..299

Completed2xx(e) == e.state = "responded" /\ Is2xx(e.status)

Failed(e) == e.state = "failed" \/ (e.state = "responded" /\ ~Is2xx(e.status))

\* the least n with n * c >= len
CeilOf(len, c) == CHOOSE n \in 0..len : n * c >= len /\ \A m \in 0..(n - 1) : m * c < len

\* the data payloads of the exchanges ex[1..k], concatenated
RECURSIVE ConcatData(_, _)
ConcatData(ex, k) == IF k = 0 THEN <<>> ELSE ConcatData(ex, k - 1) \o ex[k].params.data

\* C1: within one importTemplate invocation the chunk indexes issued are
\* 0,1,2,... without gap or repeat, at most one chunk request is in flight, and
\* every chunk request but the newest has completed with a 2xx response (so
\* chunk i+1 was issued only after chunk i completed successfully)
C1_SequentialChunks ==
    \A v \in Inv :
        LET ex == ExchangesOf(v)
        IN  /\ \A k \in 1..Len(ex) : StrToNat(ex[k].params.chunk) = k - 1
            /\ \A k \in 1..(Len(ex) - 1) : Completed2xx(ex[k])
            /\ Cardinality({k \in 1..Len(ex) : ex[k].state = "inflight"}) <= 1

C1_Witness ==
    \E v \in Inv :
        LET ex == ExchangesOf(v)
        IN  Len(ex) >= 3 /\ ex[3].state = "inflight"

\* C2: when the request for chunk k (k < total-1) has failed, by transport
\* failure or by a non-2xx response, it is the last request of the invocation
\* (no later chunk, no retry), the invocation never returns a value, and once
\* it has settled it has failed with the error of chunk k
C2_FailureAborts ==
    \A v \in Inv :
        LET ex == ExchangesOf(v)
        IN  \A k \in 1..Len(ex) :
                (Failed(ex[k]) /\ k - 1 < StrToNat(ex[k].params.total) - 1)
                => /\ k = Len(ex)
                   /\ StrToNat(ex[k].params.chunk) = k - 1
                   /\ impPc[v] \in {"text", "thrown"}
                   /\ impResult[v] = None
                   /\ impPc[v] = "thrown" =>
                        \/ impError[v].kind \in {"fetch", "body"} /\ impError[v].chunk = k - 1
                        \/ /\ impError[v].kind = "status"
                           /\ impError[v].chunkNo = k
                           /\ impError[v].status = ex[k].status

C2_Witness ==
    \E v \in Inv :
        LET ex == ExchangesOf(v)
        IN  /\ impPc[v] = "thrown"
            /\ Len(ex) = 2
            /\ StrToNat(ex[2].params.total) = 3
            /\ ex[2].state = "responded" /\ ex[2].status = 404

\* C3: a successful importTemplate of a template of length L has sent exactly
\* ceil(L / CHUNK_SIZE) chunk requests, each declaring that total, and the data
\* payloads concatenated in index order are the template
C3_ChunksReassemble ==
    \A v \in Inv :
        impPc[v] = "returned" =>
            LET ex == ExchangesOf(v)
                t == impArgs[v].template.template
                n == CeilOf(Len(t), 500)
            IN  /\ Len(ex) = n
                /\ \A k \in 1..Len(ex) : StrToNat(ex[k].params.total) = n
                /\ ConcatData(ex, Len(ex)) = t

C3_Witness ==
    \E v \in Inv :
        /\ impPc[v] = "returned"
        /\ Len(impArgs[v].template.template) = 1001
        /\ Len(ExchangesOf(v)) = 3

\* C4: importTemplate of a template of length 0 fails with the "No chunks to
\* send" error and has issued no HTTP request
C4_EmptyTemplateFails ==
    \A v \in Inv :
        (impArgs[v] # None /\ Len(impArgs[v].template.template) = 0)
        => /\ impPc[v] = "thrown"
           /\ impError[v].kind = "NoChunks"
           /\ Len(ExchangesOf(v)) = 0

C4_Witness ==
    \E v \in Inv :
        /\ impArgs[v] # None
        /\ Len(impArgs[v].template.template) = 0
        /\ impPc[v] = "thrown"

\* C5: the request of chunk 0 carries the template's name, the request of every
\* later chunk has no name parameter
C5_NameOnFirstChunkOnly ==
    \A k \in 1..Len(net) :
        IF StrToNat(net[k].params.chunk) = 0
        THEN /\ "name" \in DOMAIN net[k].params
             /\ net[k].params.name = impArgs[net[k].inv].template.name
        ELSE "name" \notin DOMAIN net[k].params

C5_Witness ==
    \E k \in 1..Len(net) :
        /\ StrToNat(net[k].params.chunk) = 2
        /\ impArgs[net[k].inv].template.name = "Anna"

\* C6: importTemplate has returned a value only when every chunk 0..total-1
\* got a 2xx response, and the value is the parsed body of the response to
\* chunk total-1
C6_ResultIsLastBody ==
    \A v \in Inv :
        impPc[v] = "returned" =>
            LET ex == ExchangesOf(v)
                total == CeilOf(Len(impArgs[v].template.template), 500)
            IN  /\ Len(ex) = total
                /\ \A k \in 1..total : Completed2xx(ex[k]) /\ StrToNat(ex[k].params.chunk) = k - 1
                /\ impResult[v] = JsonParse(ex[total].body)

C6_Witness ==
    \E v \in Inv :
        LET ex == ExchangesOf(v)
        IN  /\ impPc[v] = "returned"
            /\ Len(ex) = 3
            /\ ex[1].body = "{\"status\":\"ok\"}"
            /\ ex[3].body = "{\"status\":\"stored\"}"
            /\ impResult[v] = [status |-> "stored"]

-----------------------------------------------------------------------------
(* Properties of two concurrent transfers                                  *)

\* everything invocation v owns: its position, arguments, loop state, outcome
\* and the exchanges it made
InvState(v) ==
    <<impPc[v], impArgs[v], impI[v], impTotal[v], impResult[v], impError[v], ExchangesOf(v)>>

\* C14: with two importTemplate invocations to two devices interleaved at their
\* suspension points, each invocation's requests go to its own device, carry
\* its own template id and total and the chunk indexes 0,1,2,... in order, its
\* result and its failure come from its own exchanges, and no step changes the
\* state or the exchanges of more than one invocation
C14_TransfersIsolated ==
    /\ [](\A v \in Inv :
            impPc[v] # "idle" =>
              LET ex == ExchangesOf(v)
                  a == impArgs[v]
                  total == CeilOf(Len(a.template.template), 500)
              IN  /\ Len(ex) <= total
                  /\ \A k \in 1..Len(ex) :
                       /\ ex[k].target = a.sensor.ipAddress
                       /\ StrToNat(ex[k].params.id) = a.template.id
                       /\ StrToNat(ex[k].params.total) = total
                       /\ StrToNat(ex[k].params.chunk) = k - 1
                       /\ ex[k].params.data =
                            SubSeq(a.template.template, (k - 1) * 500 + 1,
                                   IF k * 500 < Len(a.template.template)
                                   THEN k * 500 ELSE Len(a.template.template))
                  /\ \A k \in 1..(Len(ex) - 1) : Completed2xx(ex[k])
                  /\ impPc[v] = "returned" =>
                       /\ Len(ex) = total
                       /\ impResult[v] = JsonParse(ex[total].body)
                  /\ (impPc[v] = "thrown" /\ impError[v].kind = "status") =>
                       /\ impError[v].status = ex[Len(ex)].status
                       /\ impError[v].chunkNo = Len(ex))
    /\ [][Cardinality({v \in Inv : InvState(v)' # InvState(v)}) <= 1]_vars

C14_Witness ==
    /\ impPc["t1"] = "returned"
    /\ impPc["t2"] = "thrown"
    /\ impError["t2"].kind = "status"
    /\ impResult["t1"] # None
    /\ \E i, j, k \in 1..Len(net) :
         /\ i < j /\ j < k
         /\ net[i].inv = "t1" /\ net[j].inv = "t2" /\ net[k].inv = "t1"
         /\ net[j].state = "responded" /\ net[j].status = 404
         /\ net[k].target # net[j].target

-----------------------------------------------------------------------------
(* Properties of the discovery validator                                   *)

\* the probe got an HTTP response whose status is not 404
ProbeSucceeded(outcome) == outcome.kind = "response" /\ outcome.status # 404

\* C7: the validated mapping holds no name whose most recent raw event is a
\* lost event (after raw lost(n), n stays absent until a later raw found(n))
C7_NoLostNameValidated ==
    \A n \in DeviceNames : lastRaw[n] = "lost" => ~MapHas(validatedDevices, n)

\* C8: the probe's verdict is "fingerprint doorbell" exactly when it got an
\* HTTP response with a status other than 404; a 404, a timeout and a
\* transport failure give "not a doorbell", and no error leaves the validator
C8_ProbeClassification ==
    /\ escaped = {}
    /\ lastProbe # None =>
         /\ lastProbe.isValid <=> ProbeSucceeded(lastProbe.outcome)
         /\ ~lastProbe.threw

C8_Witness ==
    /\ lastProbe # None
    /\ lastProbe.outcome = [kind |-> "response", status |-> 401]
    /\ lastProbe.isValid

\* C9: when the probe of a raw found(d) succeeds, d is in the validated mapping
\* under d.name and the registered found callback has been called exactly once,
\* with the record d, finding d already inserted; and a found notification is
\* only ever made by a step that completed a successful probe of that record
C9_FoundAfterInsert ==
    /\ (lastProbe # None /\ ProbeSucceeded(lastProbe.outcome)) =>
         /\ MapGet(validatedDevices, lastProbe.device.name) = lastProbe.device
         /\ deviceFoundCallback # NoCallback =>
              emitted = <<[kind |-> "found", arg |-> lastProbe.device,
                           cb |-> deviceFoundCallback, seen |-> lastProbe.device]>>
    /\ \A k \in 1..Len(emitted) :
         emitted[k].kind = "found" =>
            /\ lastProbe # None
            /\ ProbeSucceeded(lastProbe.outcome)
            /\ emitted[k].arg = lastProbe.device

C9_Witness ==
    /\ lastProbe # None
    /\ ProbeSucceeded(lastProbe.outcome)
    /\ Len(emitted) = 1
    /\ emitted[1].arg.ip = "10.0.0.6"
    /\ MapHas(lastProbe.before, "doorbell")
    /\ lastProbe.before["doorbell"].ip = "10.0.0.5"

\* C10: when the probe of a raw found(d) fails, the validated mapping is what it
\* was before, no notification is made and no error leaves the validator
C10_FailedProbeSilent ==
    (lastProbe # None /\ ~ProbeSucceeded(lastProbe.outcome)) =>
        /\ validatedDevices = lastProbe.before
        /\ emitted = <<>>
        /\ ~lastProbe.threw
        /\ escaped = {}

C10_Witness ==
    /\ lastProbe # None
    /\ lastProbe.outcome.kind = "timeout"
    /\ deviceFoundCallback # NoCallback
    /\ MapHas(validatedDevices, "lamp")
    /\ lastProbe.device.name = "doorbell"

\* C11: a raw lost(n) for a name in the validated mapping removes n and makes
\* exactly one lost notification for n; a raw lost(n) that follows a notified
\* lost(n) with no raw found(n) in between makes no further notification
C11_LostRemovesNotifiesOnce ==
    lastLost # None =>
        /\ MapHas(lastLost.before, lastLost.name) =>
             /\ ~MapHas(validatedDevices, lastLost.name)
             /\ \A n \in DeviceNames \ {lastLost.name} :
                  MapGet(validatedDevices, n) = MapGet(lastLost.before, n)
             /\ Len(emitted) = 1
             /\ emitted[1].kind = "lost"
             /\ emitted[1].arg.name = lastLost.name
        /\ lastLost.repeat => emitted = <<>>

\* the first half of C11 alone, which the handler does satisfy
C11_LostRemovesNotifies ==
    (lastLost # None /\ MapHas(lastLost.before, lastLost.name)) =>
        /\ ~MapHas(validatedDevices, lastLost.name)
        /\ Len(emitted) = 1
        /\ emitted[1].kind = "lost"
        /\ emitted[1].arg.name = lastLost.name

\* C12: a raw lost(n) for a name that is not in the validated mapping leaves
\* the mapping as it was and makes no notification
C12_LostUnknownIsNoop ==
    (lastLost # None /\ ~MapHas(lastLost.before, lastLost.name)) =>
        /\ validatedDevices = lastLost.before
        /\ emitted = <<>>

C12_Witness ==
    /\ lastLost # None
    /\ lastLost.name = "lamp"
    /\ MapHas(lastLost.before, "doorbell")
    /\ ~MapHas(lastLost.before, "lamp")
    /\ deviceLostCallback # NoCallback

\* C13: when a probe succeeds for a name whose latest raw event is a lost event
\* (the lost event overtook the probe), the record is inserted and the found
\* notification is made then, after the lost event, and that step makes no lost
\* notification; a lost notification is made, and an entry removed, only by a
\* step that delivers a raw lost event for that name
C13_LostOvertakesProbe ==
    /\ [](/\ (/\ lastProbe # None
              /\ ProbeSucceeded(lastProbe.outcome)
              /\ lastRaw[lastProbe.device.name] = "lost") =>
                 /\ MapGet(validatedDevices, lastProbe.device.name) = lastProbe.device
                 /\ deviceFoundCallback # NoCallback =>
                      /\ Len(emitted) = 1
                      /\ emitted[1].kind = "found"
                      /\ emitted[1].arg = lastProbe.device
                 /\ \A k \in 1..Len(emitted) : emitted[k].kind # "lost"
          /\ \A k \in 1..Len(emitted) :
               emitted[k].kind = "lost" =>
                  /\ lastLost # None
                  /\ lastLost.name = emitted[k].arg.name)
    /\ [][\A n \in DeviceNames :
            (MapHas(validatedDevices, n) /\ ~MapHas(validatedDevices', n)) =>
               (lastLost' # None /\ lastLost'.name = n)]_vars

C13_Witness ==
    /\ lastProbe # None
    /\ ProbeSucceeded(lastProbe.outcome)
    /\ lastRaw[lastProbe.device.name] = "lost"
    /\ ~MapHas(lastProbe.before, lastProbe.device.name)
    /\ MapHas(validatedDevices, lastProbe.device.name)
    /\ Len(emitted) = 1

\* C15: the discovery service is constructed at most once: once the singleton
\* is set it never changes, only the constructing call registers the raw
\* handlers (one found, one lost), and no later call makes a new mapping
C15_SingletonService ==
    [][/\ discoveryInstance # "null" =>
            /\ discoveryInstance' = discoveryInstance
            /\ ipcFoundListeners' <= ipcFoundListeners
            /\ ipcLostListeners' <= ipcLostListeners
            /\ mounts' > mounts => validatedDevices' = validatedDevices
       /\ (discoveryInstance = "null" /\ discoveryInstance' # "null") =>
            /\ ipcFoundListeners' = 1
            /\ ipcLostListeners' = 1
       /\ ipcFoundListeners' <= 1
       /\ ipcLostListeners' <= 1]_vars

C15_Witness ==
    /\ mounts = 2
    /\ mounted
    /\ discoveryInstance = "validating"
    /\ validatedDevices # EmptyMap

-----------------------------------------------------------------------------
(* Properties of the fingerprint list screen                               *)

\* the ids of a fingerprint list
IdsOf(fps) == {fps[k].id : k \in 1..Len(fps)}

\* C16: the id an enrollment is started with is the least integer n >= 1 that
\* no listed fingerprint has
C16_LeastUnusedId ==
    (fpLast.kind = "enroll" /\ fpLast.issued) =>
        /\ fpLast.id >= 1
        /\ fpLast.id \notin IdsOf(fpLast.list)
        /\ \A m \in 1..(fpLast.id - 1) : m \in IdsOf(fpLast.list)
        /\ IdsOf(fpLast.list) = {1, 3, 4} => fpLast.id = 2
        /\ IdsOf(fpLast.list) = {1, 2, 3} => fpLast.id = 4
        /\ IdsOf(fpLast.list) = {} => fpLast.id = 1

C16_Witness ==
    /\ fpLast.kind = "enroll"
    /\ fpLast.issued
    /\ IdsOf(fpLast.list) = {1, 3, 4}
    /\ fpLast.list[1].id = 4
    /\ fpLast.id = 2

\* the text consists of 1 to 8 hexadecimal characters
IsHexPassword(str) ==
    /\ Len(str) \in 1..8
    /\ \A k \in 1..Len(str) :
         \E d \in 0..15 :
            str[k] \in {<<"0","1","2","3","4","5","6","7","8","9","a","b","c","d","e","f">>[d + 1],
                        <<"0","1","2","3","4","5","6","7","8","9","A","B","C","D","E","F">>[d + 1]}

\* the text is core with only whitespace before and after it
IsPadded(str, core) ==
    \E i \in 1..(Len(str) + 1) :
        /\ i + Len(core) - 1 <= Len(str)
        /\ SubSeq(str, i, i + Len(core) - 1) = core
        /\ \A k \in (1..Len(str)) \ (i..(i + Len(core) - 1)) : str[k] \in {" ", "\t", "\n"}

\* C17 as stated: the pair request is issued exactly when the entered password
\* consists of 1 to 8 hexadecimal characters; otherwise a validation error is
\* reported and no request is issued
C17_OnlyHexEntered ==
    fpLast.kind = "pair" =>
        /\ fpLast.issued <=> IsHexPassword(fpLast.entered)
        /\ ~fpLast.issued => (fpLast.alert # "" /\ fpLast.request = None)

\* C17: the pair request is issued exactly when the entered password, leading
\* and trailing whitespace aside, consists of 1 to 8 hexadecimal characters,
\* and it carries that password without the whitespace; otherwise a validation
\* error is reported and no request is issued
C17_OnlyHexAfterTrim ==
    fpLast.kind = "pair" =>
        /\ fpLast.issued <=>
             \E i, j \in 0..Len(fpLast.entered) :
                /\ IsHexPassword(SubSeq(fpLast.entered, i + 1, j))
                /\ IsPadded(fpLast.entered, SubSeq(fpLast.entered, i + 1, j))
        /\ fpLast.issued =>
             /\ fpLast.alert = ""
             /\ fpLast.request.call = "pairSensor"
             /\ IsHexPassword(fpLast.request.password)
             /\ IsPadded(fpLast.entered, fpLast.request.password)
        /\ ~fpLast.issued => (fpLast.alert # "" /\ fpLast.request = None)

C17_Witness ==
    /\ fpLast.kind = "pair"
    /\ fpLast.entered = <<" ", "1", "a", " ">>
    /\ fpLast.issued
    /\ fpLast.request.password = <<"1", "a">>

C17_WitnessRejected ==
    /\ fpLast.kind = "pair"
    /\ Len(fpLast.entered) = 9
    /\ ~fpLast.issued

-----------------------------------------------------------------------------
(* Properties of the sensor registry                                       *)

\* the list loadSensors returns for the item stored now
Stored == loadSensors(storage)

\* C18: when addSensor(s) has completed with no other registry operation in
\* flight during it, loadSensors returns the list stored before the call
\* followed by s, every field of s as passed; from an empty registry it is <<s>>
C18_AddAppends ==
    (regDone.kind = "add" /\ regDone.alone) =>
        LET before == loadSensors(regDone.atStart)
        IN  /\ Len(Stored) = Len(before) + 1
            /\ \A k \in 1..Len(before) : Stored[k] = before[k]
            /\ Stored[Len(Stored)].id = regDone.sensor.id
            /\ Stored[Len(Stored)].name = regDone.sensor.name
            /\ Stored[Len(Stored)].ipAddress = regDone.sensor.ipAddress
            /\ Stored[Len(Stored)].apiKey = regDone.sensor.apiKey
            /\ Len(regDone.atStart) = 0 => Stored = <<regDone.sensor>>

C18_Witness ==
    /\ regDone.kind = "add"
    /\ regDone.alone
    /\ Len(Stored) = 2
    /\ Stored[2].apiKey = "k3y"
    /\ Stored[1].name = "doorbell"

\* C19: deleteSensor(id), run with no other registry operation in flight,
\* removes exactly one record, the one whose id equals id, and leaves the other
\* records as they were and in their order; for an id that no record has the
\* list is unchanged
C19_DeleteRemovesOne ==
    (regDone.kind = "delete" /\ regDone.alone) =>
        LET before == loadSensors(regDone.atStart)
            id == regDone.sensor.id
        IN  IF \E k \in 1..Len(before) : before[k].id = id
            THEN \E k \in 1..Len(before) :
                    /\ before[k].id = id
                    /\ Len(Stored) = Len(before) - 1
                    /\ \A j \in 1..Len(Stored) :
                         Stored[j] = IF j < k THEN before[j] ELSE before[j + 1]
            ELSE Stored = before

\* C20: no two records of the persisted list have the same id
C20_UniqueIds ==
    \A i, j \in 1..Len(Stored) : i # j => Stored[i].id # Stored[j].id

\* the ids of a list, in order
IdSeq(sensors) == [k \in 1..Len(sensors) |-> sensors[k].id]

C21_WitnessAbsent ==
    /\ regDone.kind = "update"
    /\ regDone.alone
    /\ regDone.pc = "load"
    /\ Len(Stored) > 0

\* what an operation makes of the list it loaded
EffectOn(op, sensors) ==
    CASE op.kind = "add" -> sensors \o <<op.sensor>>
      [] op.kind = "delete" ->
            SelectSeq(sensors, LAMBDA r : ~(r.id = op.sensor.id))
      [] OTHER ->
            [k \in 1..Len(sensors) |->
                IF sensors[k].id = op.sensor.id
                   /\ \A j \in 1..(k - 1) : sensors[j].id # op.sensor.id
                THEN op.sensor ELSE sensors[k]]

\* C22: when an operation saves after another operation saved between its load
\* and its save (both had loaded before either saved), the persisted list is
\* exactly what this last saver made of the list it had loaded; whatever the
\* earlier saver wrote is gone
C22_LastWriteWins ==
    (regDone # None /\ regDone.pc = "save" /\ regDone.overtaken) =>
        Stored = EffectOn(regDone, loadSensors(regDone.loaded))

C22_Witness ==
    /\ regDone # None
    /\ regDone.pc = "save"
    /\ regDone.overtaken
    /\ regDone.kind = "add"
    /\ regCount = 2
    /\ regOps = <<>>
    /\ Len(regDone.loaded) = 0
    /\ Len(Stored) = 1

\* C23: in the polling of an enrollment, after a status poll of it has failed
\* no further status request is issued for it, and the "lost connection" state
\* is final: no later poll result of that enrollment changes what the screen
\* shows of the enrollment
C23_LostIsTerminal ==
    /\ (fpLast.kind = "tick") => ~fpLast.lostBefore
    /\ (fpLast.kind = "poll" /\ fpLast.lostBefore) => ~fpLast.changed

\* C24: once the cancel request of an enrollment has settled (whether it
\* succeeded or failed), no status poll is issued for that enrollment and no
\* poll result of it changes what the screen shows
C24_CancelAbandonsPolling ==
    /\ (fpLast.kind = "tick") => ~fpLast.cancelledBefore
    /\ (fpLast.kind = "poll" /\ fpLast.cancelledBefore) => ~fpLast.changed

\* C30: an enrollment has at most one status request in flight, and a poll
\* result that arrives after the loop of its enrollment was stopped changes
\* neither the enrollment state nor the dialog
C30_OnePollInFlight ==
    /\ \A e \in 1..MaxEnrollments : sessions[e].polls <= 1
    /\ (fpLast.kind = "poll" /\ fpLast.stoppedBefore) => ~fpLast.changed

\* C25: a name whose most recently completed probe failed has no entry in the
\* validated mapping: when the probe of a raw found(d) fails, d.name is not in
\* the mapping afterwards, also when it was in the mapping before
C25_EntryLastProbeSucceeded ==
    (lastProbe # None /\ ~ProbeSucceeded(lastProbe.outcome)) =>
        ~MapHas(validatedDevices, lastProbe.device.name)

\* C26: every entry of the validated mapping is stored under its own name (one
\* record per name), and a successful probe of a raw found(d) leaves d as the
\* record of d.name, whatever record the name had and whichever of the
\* announcements arrived first, and leaves the entries of other names alone
C26_LastCompletedProbeWins ==
    /\ \A n \in DOMAIN validatedDevices : validatedDevices[n].name = n
    /\ (lastProbe # None /\ ProbeSucceeded(lastProbe.outcome)) =>
         /\ DOMAIN validatedDevices = DOMAIN lastProbe.before \cup {lastProbe.device.name}
         /\ \A n \in DOMAIN validatedDevices :
              validatedDevices[n] = IF n = lastProbe.device.name
                                    THEN lastProbe.device ELSE lastProbe.before[n]

\* two announcements of "doorbell", first 10.0.0.5 then 10.0.0.6, probed
\* concurrently; the probe of 10.0.0.6 succeeded first, the probe of 10.0.0.5
\* succeeds last and its record is the one kept
C26_Witness ==
    /\ lastProbe # None
    /\ ProbeSucceeded(lastProbe.outcome)
    /\ rawEvents = 2
    /\ \A d \in Devices : probes[d] = 0
    /\ lastProbe.device.ip = "10.0.0.5"
    /\ MapHas(lastProbe.before, "doorbell")
    /\ lastProbe.before["doorbell"].ip = "10.0.0.6"
    /\ MapHas(rawDevices, "doorbell")
    /\ rawDevices["doorbell"].ip = "10.0.0.6"
    /\ validatedDevices["doorbell"].ip = "10.0.0.5"

\* C27: while callbacks are registered with the discovery service (also the
\* callbacks a re-mounted screen registered after removeListeners()), every raw
\* found event reaches the validator, which probes it, and every raw lost event
\* of a validated name is notified to the registered lost callback
C27_RemountedScreenReceives ==
    /\ (lastAnnounce.kind = "found" /\ lastAnnounce.callback # NoCallback) =>
          lastAnnounce.handled
    /\ (lastAnnounce.kind = "lost" /\ lastAnnounce.callback # NoCallback
                                   /\ lastAnnounce.validated) =>
          emitted = <<[kind |-> "lost", arg |-> [name |-> lastAnnounce.name],
                       cb |-> lastAnnounce.callback, seen |-> None]>>

\* C28: when the backend has handled the start of a discovery session that
\* follows a stop, its raw device map is empty and so is the validated mapping:
\* getDiscoveredDevices() returns no device of the previous session
C28_RestartClearsValidated ==
    (lastAnnounce.kind = "start" /\ lastAnnounce.afterStop) =>
        /\ rawDevices = EmptyMap
        /\ validatedDevices = EmptyMap

\* C29: every chunk request of a copy carries an id that the list fetched
\* from the target does not hold: the source fingerprint's id when the target
\* does not list it, else the least integer >= 1 the target does not list; and
\* a chunk request is sent only after the list request, which has completed
C29_ImportIdUnusedOnTarget ==
    \A k \in 1..Len(copyLog) :
        copyLog[k].kind = "chunk" =>
            /\ copyLog[k].id >= 1
            /\ copyLog[k].id \notin IdsOf(copyFetched)
            /\ (copyTarget \notin IdsOf(copyFetched)) => copyLog[k].id = copyTarget
            /\ (copyTarget \in IdsOf(copyFetched)) =>
                  \A m \in 1..(copyLog[k].id - 1) : m \in IdsOf(copyFetched)
            /\ \E j \in 1..(k - 1) : copyLog[j].kind = "list"
            /\ copyPc \in {"import", "done", "failed"}

\* fingerprint 2 is copied in two chunks to a device that lists 1, 2 and 4
C29_Witness ==
    /\ copyPc = "done"
    /\ copyTarget = 2
    /\ IdsOf(copyFetched) = {1, 2, 4}
    /\ Len(copyLog) = 4
    /\ copyLog[4] = [kind |-> "chunk", id |-> 3, chunk |-> 1]

C29_WitnessSourceId ==
    /\ copyPc = "import"
    /\ copyTarget = 3
    /\ IdsOf(copyFetched) = {1, 2}
    /\ copyLog[Len(copyLog)] = [kind |-> "chunk", id |-> 3, chunk |-> 0]

====
